---------------------------- MODULE Spec2Model ----------------------------
(***************************************************************************)
(* A model of six parts of the JSON:API relational-mapping core:           *)
(*   - deleteRelationshipMethod (rest-api-plugin-methods/                  *)
(*     delete-relationship.js), an asynchronous handler modelled as a      *)
(*     state machine with one action per awaited step (SpecDR);            *)
(*   - buildFieldSelection (lib/knex-field-helpers.js), a pure function    *)
(*     applied to bounded schemas and requests (SpecFS);                   *)
(*   - toJsonApi / toJsonApiRecord / buildJsonApiResponse                  *)
(*     (lib/knex-json-api-helpers.js, lib/knex-json-api-transformers.js),  *)
(*     pure functions applied to bounded scopes and records (SpecJA);      *)
(*   - the declarative auth rules of the JWT auth plugin, as               *)
(*     tests/jwt-auth.test.js declares and exercises them (SpecAU);        *)
(*   - processBelongsToRelationships (lib/knex-json-api-transformers.js),  *)
(*     a pure function applied to bounded inputs (SpecPB);                 *)
(*   - requests on one resource that build their documents from the        *)
(*     scope.vars they share (SpecPG).                                     *)
(***************************************************************************)
EXTENDS Integers, Sequences, FiniteSets, TLC

VARIABLES
  pc,        \* position of the deleteRelationship call
  params,    \* the call's params: id, relationshipName, relationshipData, txMode
  context,   \* context.transaction / context.shouldCommit
  db,        \* committed storage: pivot tables, child rows, endpoint records
  tx,        \* the transaction the call runs in: its state and its view
  idx,       \* loop position in params.relationshipData
  thrown,    \* the error thrown inside the try block
  rejection, \* the error the call rejects with
  hist,      \* history: the storage at the start, the statements issued
  fs,        \* buildFieldSelection: input and output
  ja,        \* buildJsonApiResponse: input and output
  au,        \* a resource method called under a declarative auth declaration
  pb,        \* processBelongsToRelationships: input and output
  pg         \* requests on one resource and the scope.vars they share

vars == <<pc, params, context, db, tx, idx, thrown, rejection, hist, fs, ja, au, pb, pg>>
drVars == <<pc, params, context, db, tx, idx, thrown, rejection, hist>>

(***************************************************************************)
(* Bounds of the model.                                                    *)
(***************************************************************************)
NumParents == 2
NumTargets == 3
MaxData == 2

Undef == "undefined"
Idle == [pc |-> "idle"]
NoError == "none"

RECURSIVE SeqsUpTo(_, _)
SeqsUpTo(S, n) ==
  IF n = 0 THEN {<<>>}
  ELSE LET shorter == SeqsUpTo(S, n - 1)
       IN shorter \cup {Append(s, e) : s \in {t \in shorter : Len(t) = n - 1}, e \in S}

(***************************************************************************)
(* deleteRelationship: the storage.                                        *)
(***************************************************************************)
Parents == 1..NumParents
Targets == 1..NumTargets
NullFk == 0

\* The relationships of the parent resource, as declared on the scope.
SchemaRelationships ==
  [tags     |-> [hasMany |-> "tags", through |-> "article_tags",
                 foreignKey |-> "article_id", otherKey |-> "tag_id"],
   labels   |-> [manyToMany |-> [through |-> "article_labels",
                                 foreignKey |-> "article_id", otherKey |-> "label_id"]],
   comments |-> [hasMany |-> "comments", foreignKey |-> "article_id"],
   author   |-> [belongsTo |-> "people"]]

RelationshipNames == {"tags", "labels", "comments", "author", "nosuch"}
PivotTables == {"article_tags", "article_labels"}

Has(r, k) == k \in DOMAIN r

\* findRelationshipDefinition: the definition, or NoRelDef (a falsy value) when
\* the resource declares no relationship of that name.
NoRelDef == [none |-> TRUE]
findRelationshipDefinition(name) ==
  IF name \in DOMAIN SchemaRelationships THEN SchemaRelationships[name] ELSE NoRelDef

\* Child c starts as a child of parent ((c-1) mod NumParents)+1; the last child
\* has a null foreign key.
InitialFk(c) == IF c = NumTargets THEN NullFk ELSE ((c - 1) % NumParents) + 1

InitialDb ==
  [pivot    |-> [t \in PivotTables |-> Parents \X Targets],
   children |-> [c \in Targets |-> [fk |-> InitialFk(c), body |-> c]],
   parents  |-> [p \in Parents |-> [title |-> p]],
   targets  |-> [t \in Targets |-> [name |-> t]]]

\* relationshipData: an array of resource identifiers (their ids), or not an array.
NotAnArray == <<-1>>
RelationshipDataValues == SeqsUpTo(Targets, MaxData) \cup {NotAnArray}
IsArray(d) == d # NotAnArray

TxModes == {"caller", "own", "none"}

InitDR ==
  /\ fs = Idle
  /\ ja = Idle
  /\ au = Idle
  /\ pb = Idle
  /\ pg = Idle
  /\ pc = "start"
  /\ params \in [id : 1..(NumParents + 1),
                 relationshipName : RelationshipNames,
                 relationshipData : RelationshipDataValues,
                 txMode : TxModes]
  /\ context = [transaction |-> FALSE, shouldCommit |-> FALSE]
  /\ db = InitialDb
  /\ tx = [state |-> IF params.txMode = "caller" THEN "open" ELSE "none",
           view |-> InitialDb]
  /\ idx = 1
  /\ thrown = NoError
  /\ rejection = NoError
  /\ hist = [db0 |-> InitialDb, issued |-> 0, commits |-> 0, rollbacks |-> 0,
             hooks |-> <<>>]


(***************************************************************************)
(* deleteRelationship: the statements it issues.                           *)
(***************************************************************************)
\* knex(pivotTable).where(localKey, context.id).where(foreignKey, identifier.id).delete()
DeletePivotRowsLosingTargetFilter(store, pivotTable, parentId, targetId) ==
  [store EXCEPT !.pivot[pivotTable] = {row \in @ : row[1] # parentId}]

DeletePivotRows(store, pivotTable, parentId, targetId) ==
  [store EXCEPT !.pivot[pivotTable] = {row \in @ : ~(row[1] = parentId /\ row[2] = targetId)}]

\* api.resources[targetType].patch({id, inputRecord: {data: {attributes: {[foreignKey]: null}}}})
PatchReplacingTheRecord(store, childId) ==
  [store EXCEPT !.children[childId] = [fk |-> NullFk, body |-> 0]]

PatchForeignKeyToNull(store, childId) ==
  [store EXCEPT !.children[childId].fk = NullFk]

\* context.db = context.transaction || api.knex.instance: what the call reads.
ContextDb == IF context.transaction THEN tx.view ELSE db

\* A statement run with .transacting(context.transaction) / transaction:
\* context.transaction changes the transaction's view; with no transaction it is
\* applied to the storage at once.
Write(store) ==
  IF context.transaction
  THEN /\ tx' = [tx EXCEPT !.view = store]
       /\ db' = db
  ELSE /\ db' = store
       /\ tx' = tx

Throw(err) ==
  /\ thrown' = err
  /\ pc' = "catch"

RelDef == findRelationshipDefinition(params.relationshipName)

IsThrough(relDef) ==
  Has(relDef, "manyToMany") \/ (Has(relDef, "hasMany") /\ Has(relDef, "through"))

ManyToManyDef(relDef) ==
  IF Has(relDef, "manyToMany") THEN relDef.manyToMany
  ELSE [through |-> relDef.through, foreignKey |-> relDef.foreignKey,
        otherKey |-> relDef.otherKey]

AfterRemoval ==
  IF idx >= Len(params.relationshipData) THEN "finish" ELSE "remove"

(***************************************************************************)
(* deleteRelationship: one action per awaited step.                        *)
(***************************************************************************)
\* Lines 16-25: the transaction is taken before the try block.
Begin ==
  /\ pc = "start"
  /\ \/ /\ params.txMode = "caller"
        /\ context' = [transaction |-> TRUE, shouldCommit |-> FALSE]
        /\ tx' = tx
        /\ pc' = "validate"
        /\ rejection' = rejection
     \/ /\ params.txMode = "own"
        /\ context' = [transaction |-> TRUE, shouldCommit |-> TRUE]
        /\ tx' = [state |-> "open", view |-> db]
        /\ pc' = "validate"
        /\ rejection' = rejection
     \/ /\ params.txMode = "own"   \* helpers.newTransaction() rejects
        /\ context' = context
        /\ tx' = tx
        /\ pc' = "failed"
        /\ rejection' = "StorageError"
     \/ /\ params.txMode = "none"
        /\ context' = [transaction |-> FALSE, shouldCommit |-> FALSE]
        /\ tx' = tx
        /\ pc' = "validate"
        /\ rejection' = rejection
  /\ UNCHANGED <<params, db, idx, thrown, hist, fs, ja, au, pb, pg>>

\* Lines 28-46. RestApiValidationError and RestApiPayloadError are not imported by
\* the module (lines 2-3), so evaluating either name throws a ReferenceError.
Validate ==
  /\ pc = "validate"
  /\ IF Has(RelDef, "none")
     THEN Throw("relationship_not_found")
     ELSE IF ~Has(RelDef, "hasMany") /\ ~Has(RelDef, "manyToMany")
     THEN Throw("ReferenceError")
     ELSE IF ~IsArray(params.relationshipData)
     THEN Throw("ReferenceError")
     ELSE /\ pc' = "checkPermissions"
          /\ thrown' = thrown
  /\ UNCHANGED <<params, context, db, tx, idx, rejection, hist, fs, ja, au, pb, pg>>

\* runHooks(name): the hooks run; any of them may throw.
RunHooks(name, next) ==
  /\ hist' = [hist EXCEPT !.hooks = Append(@, name)]
  /\ \/ /\ pc' = next
        /\ thrown' = thrown
     \/ Throw("HookError")
  /\ UNCHANGED <<params, context, db, tx, idx, rejection, fs, ja, au, pb, pg>>

\* Line 49
CheckPermissionsSkippingLine50 ==
  /\ pc = "checkPermissions"
  /\ RunHooks("checkPermissions", "dataExists")

CheckPermissions ==
  /\ pc = "checkPermissions"
  /\ RunHooks("checkPermissions", "checkPermissionsDeleteRelationship")

\* Line 50
CheckPermissionsDeleteRelationship ==
  /\ pc = "checkPermissionsDeleteRelationship"
  /\ RunHooks("checkPermissionsDeleteRelationship", "dataExists")

\* Lines 52-60
VerifyParentExists ==
  /\ pc = "dataExists"
  /\ \/ IF params.id \in DOMAIN ContextDb.parents
        THEN /\ pc' = IF Len(params.relationshipData) = 0 THEN "finish" ELSE "remove"
             /\ thrown' = thrown
        ELSE Throw("not_found")
     \/ Throw("StorageError")
  /\ UNCHANGED <<params, context, db, tx, idx, rejection, hist, fs, ja, au, pb, pg>>

\* Lines 63-83: one iteration of the loop over the identifiers.
RemovePivotRow ==
  /\ pc = "remove"
  /\ IsThrough(RelDef)
  /\ \/ /\ Write(DeletePivotRows(ContextDb, ManyToManyDef(RelDef).through,
                                 params.id, params.relationshipData[idx]))
        /\ hist' = [hist EXCEPT !.issued = @ + 1]
        /\ idx' = idx + 1
        /\ pc' = AfterRemoval
        /\ thrown' = thrown
     \/ /\ Throw("StorageError")
        /\ UNCHANGED <<db, tx, hist, idx>>
  /\ UNCHANGED <<params, context, rejection, fs, ja, au, pb, pg>>

\* Lines 84-101: one iteration of the loop over the identifiers.
PatchChild ==
  /\ pc = "remove"
  /\ ~IsThrough(RelDef)
  /\ \/ /\ Write(PatchForeignKeyToNull(ContextDb, params.relationshipData[idx]))
        /\ hist' = [hist EXCEPT !.issued = @ + 1]
        /\ idx' = idx + 1
        /\ pc' = AfterRemoval
        /\ thrown' = thrown
     \/ /\ Throw("StorageError")
        /\ UNCHANGED <<db, tx, hist, idx>>
  /\ UNCHANGED <<params, context, rejection, fs, ja, au, pb, pg>>

\* Line 103
Finish ==
  /\ pc = "finish"
  /\ RunHooks("finish", "finishDeleteRelationship")

\* Line 104
FinishDeleteRelationship ==
  /\ pc = "finishDeleteRelationship"
  /\ RunHooks("finishDeleteRelationship", "commit")

\* Lines 106-110
CommitAnyTransaction ==
  /\ pc = "commit"
  /\ \/ /\ context.transaction
        /\ db' = tx.view
        /\ tx' = [tx EXCEPT !.state = "committed"]
        /\ hist' = [hist EXCEPT !.commits = @ + 1]
        /\ pc' = "done"
        /\ thrown' = thrown
     \/ /\ ~context.transaction
        /\ pc' = "done"
        /\ UNCHANGED <<db, tx, hist, thrown>>
  /\ UNCHANGED <<params, context, idx, rejection, fs, ja, au, pb, pg>>

Commit ==
  /\ pc = "commit"
  /\ \/ /\ context.shouldCommit
        /\ db' = tx.view
        /\ tx' = [tx EXCEPT !.state = "committed"]
        /\ hist' = [hist EXCEPT !.commits = @ + 1]
        /\ pc' = "done"
        /\ thrown' = thrown
     \/ /\ context.shouldCommit   \* transaction.commit() rejects
        /\ hist' = [hist EXCEPT !.commits = @ + 1]
        /\ Throw("StorageError")
        /\ UNCHANGED <<db, tx>>
     \/ /\ ~context.shouldCommit
        /\ pc' = "done"
        /\ UNCHANGED <<db, tx, hist, thrown>>
  /\ UNCHANGED <<params, context, idx, rejection, fs, ja, au, pb, pg>>

\* Lines 112-114: handleWriteMethodError and log are not imported by the module
\* (lines 2-3): evaluating the callee throws a ReferenceError, which is what the
\* call rejects with. Nothing rolls the transaction back.
Catch ==
  /\ pc = "catch"
  /\ rejection' = "ReferenceError"
  /\ pc' = "failed"
  /\ UNCHANGED <<params, context, db, tx, idx, thrown, hist, fs, ja, au, pb, pg>>

NextDR ==
  \/ Begin
  \/ Validate
  \/ CheckPermissions
  \/ CheckPermissionsDeleteRelationship
  \/ VerifyParentExists
  \/ RemovePivotRow
  \/ PatchChild
  \/ Finish
  \/ FinishDeleteRelationship
  \/ Commit
  \/ Catch

SpecDR == InitDR /\ [][NextDR]_vars

(***************************************************************************)
(* buildFieldSelection: scopes and requests.                               *)
(***************************************************************************)
MaxRequested == 2

Range(seq) == {seq[k] : k \in 1..Len(seq)}

\* A polymorphic belongsTo relationship as the fixtures and the guide declare it
\* (typeField and idField inside belongsToPolymorphic), and as lines 213-215 read
\* it (typeField and idField on the relationship definition itself).
PolymorphicShapes == {"nested", "flat", "none"}

PolymorphicRelDef(shape) ==
  IF shape = "nested"
  THEN [belongsToPolymorphic |-> [types |-> {"books", "authors"},
                                  typeField |-> "reviewable_type",
                                  idField |-> "reviewable_id"]]
  ELSE [belongsToPolymorphic |-> [types |-> {"books", "authors"}],
        typeField |-> "reviewable_type",
        idField |-> "reviewable_id"]

Relationships(shape) ==
  IF shape = "none"
  THEN [replies |-> [hasMany |-> "replies", foreignKey |-> "review_id"]]
  ELSE [replies |-> [hasMany |-> "replies", foreignKey |-> "review_id"],
        reviewable |-> PolymorphicRelDef(shape)]

\* The dependencies a computed field may declare.
DependencyLists == {<<"cost">>, <<"cost", "title">>, <<"author_id", "ghost">>}

FieldDef(hidden, normallyHidden, belongsTo, as) ==
  [hidden |-> hidden, normallyHidden |-> normallyHidden, belongsTo |-> belongsTo, as |-> as]

\* Where the computed and virtual fields are declared: "apart" from the schema,
\* or inside it with computed: true / virtual: true (as the products and tasks
\* fixtures do), possibly marked normallyHidden; schemaInfo.schema then keeps
\* their entries next to schemaInfo.computed and schemaInfo.virtual.
Declarations == {"apart", "schema", "schemaNormallyHidden"}

DeclaredInSchema(declared) ==
  IF declared = "apart" THEN <<>>
  ELSE [f \in {"label", "confirm"} |->
          FieldDef(FALSE, declared = "schemaNormallyHidden", Undef, Undef)]

Scope(costHidden, costNormallyHidden, fkHidden, fkNormallyHidden, typeHidden, shape, deps, idProperty, declared) ==
  [schema |->
     [title           |-> FieldDef(FALSE, FALSE, Undef, Undef),
      cost            |-> FieldDef(costHidden, costNormallyHidden, Undef, Undef),
      author_id       |-> FieldDef(fkHidden, fkNormallyHidden, "people", "author"),
      reviewable_type |-> FieldDef(typeHidden, FALSE, Undef, Undef),
      reviewable_id   |-> FieldDef(FALSE, FALSE, Undef, Undef)]
     @@ DeclaredInSchema(declared),
   computed |-> [profit |-> [dependencies |-> deps],
                 label  |-> [dependencies |-> <<"title">>]],
   virtual |-> [confirm |-> [type |-> "string"]],
   schemaRelationships |-> Relationships(shape),
   idProperty |-> idProperty]

IdProperties == {"id", "country_id"}

FSScopes ==
  {Scope(ch, cn, fh, fn, th, shape, deps, idp, "apart") :
     ch \in BOOLEAN, cn \in BOOLEAN, fh \in BOOLEAN, fn \in BOOLEAN, th \in BOOLEAN,
     shape \in PolymorphicShapes, deps \in DependencyLists, idp \in IdProperties}
  \cup {Scope(FALSE, cn, FALSE, FALSE, FALSE, "none", <<"cost">>, "id", declared) :
          cn \in BOOLEAN, declared \in Declarations \ {"apart"}}

\* context.queryParams.fields[scopeName]: absent, an array of names, or a
\* comma-separated string (kept as its comma-separated pieces, untrimmed).
RequestedNames ==
  {"title", "cost", "author_id", "reviewable_type", "profit", "label", "confirm", "bogus",
   "constructor"}
StringPieces == {"", " cost ", "profit"}

RequestedFieldsValues ==
  {[kind |-> "absent", items |-> <<>>]}
  \cup {[kind |-> "array", items |-> a] : a \in SeqsUpTo(RequestedNames, MaxRequested)}
  \cup {[kind |-> "string", items |-> a] :
          a \in SeqsUpTo(StringPieces, MaxRequested) \ {<<>>}}

(***************************************************************************)
(* buildFieldSelection (knex-field-helpers.js lines 69-233).               *)
(***************************************************************************)
\* f.trim()
Trim(piece) == IF piece = " cost " THEN "cost" ELSE piece

\* JavaScript truthiness of requestedFields: undefined and '' are falsy, every
\* array is truthy.
Truthy(requestedFields) ==
  CASE requestedFields.kind = "absent" -> FALSE
    [] requestedFields.kind = "array"  -> TRUE
    [] requestedFields.kind = "string" -> requestedFields.items # <<"">>

\* requestedFields.split(',').map(f => f.trim()).filter(f => f)
SplitTrimFilter(pieces) ==
  SelectSeq([k \in 1..Len(pieces) |-> Trim(pieces[k])], LAMBDA f : f # "")

\* Lines 105-109: the parsed list; RequestedIsNull tells null from [].
ParseRequested(requestedFields) ==
  IF ~Truthy(requestedFields) THEN <<>>
  ELSE IF requestedFields.kind = "string" THEN SplitTrimFilter(requestedFields.items)
  ELSE requestedFields.items

\* Lines 86-92
IdColumn(idProperty) ==
  IF idProperty # "id" THEN idProperty \o " as id" ELSE "id"

\* Lines 97-99
NonDatabaseFields(scope) == DOMAIN scope.computed \cup DOMAIN scope.virtual

\* Lines 102 and 120: schemaStructure is a plain object ("Handle both Schema
\* objects and plain objects"), and schemaStructure[field] is a property read: for
\* a name that every object inherits it yields the inherited member, a truthy
\* value whose hidden, normallyHidden and belongsTo are undefined.
ObjectPrototypeNames == {"constructor"}

IsTruthyLookup(scope, field) ==
  field \in DOMAIN scope.schema \/ field \in ObjectPrototypeNames

\* Line 121: the requested names for which !fieldDef holds, in request order; the
\* first one is the one the error names.
UnknownSparseFields(scope, requested) ==
  SelectSeq(requested,
            LAMBDA f : f \notin NonDatabaseFields(scope) /\ ~IsTruthyLookup(scope, f))

\* Lines 114-128
RequestedColumns(scope, requested) ==
  {f \in Range(requested) :
     /\ f \notin NonDatabaseFields(scope)
     /\ IsTruthyLookup(scope, f)
     /\ (f \in DOMAIN scope.schema => scope.schema[f].hidden # TRUE)}

\* Lines 136-141 and 186-190: the dependencies of the given computed fields that
\* are schema fields and are not hidden.
DependencyColumnsFirstOnly(scope, computedNames) ==
  {dep \in DOMAIN scope.schema :
     /\ scope.schema[dep].hidden # TRUE
     /\ \E c \in computedNames :
          /\ Len(scope.computed[c].dependencies) > 0
          /\ dep = scope.computed[c].dependencies[1]}

DependencyColumns(scope, computedNames) ==
  {dep \in DOMAIN scope.schema :
     /\ scope.schema[dep].hidden # TRUE
     /\ \E c \in computedNames : dep \in Range(scope.computed[c].dependencies)}

\* Line 133
RequestedComputedFields(scope, requested) ==
  {f \in Range(requested) : f \in DOMAIN scope.computed}

\* Lines 153-165: with a requested computed field, every normallyHidden field
\* that is not hidden and not selected yet.
NormallyHiddenColumns(scope, requested, selected) ==
  IF RequestedComputedFields(scope, requested) = {} THEN {}
  ELSE {f \in DOMAIN scope.schema :
          /\ scope.schema[f].normallyHidden = TRUE
          /\ scope.schema[f].hidden # TRUE
          /\ f \notin selected}

\* Lines 169-179
VisibleColumns(scope) ==
  {f \in DOMAIN scope.schema :
     scope.schema[f].hidden # TRUE /\ scope.schema[f].normallyHidden # TRUE}

\* Lines 203-207
ForeignKeyColumnsIfRequested(scope, requested) ==
  {f \in DOMAIN scope.schema :
     /\ scope.schema[f].belongsTo # Undef
     /\ scope.schema[f].hidden # TRUE
     /\ f \in Range(requested)}

ForeignKeyColumns(scope, requested) ==
  {f \in DOMAIN scope.schema :
     scope.schema[f].belongsTo # Undef /\ scope.schema[f].hidden # TRUE}

\* Lines 210-220: relDef.typeField and relDef.idField are read on the
\* relationship definition itself.
PolymorphicColumns(scope) ==
  UNION {(IF Has(scope.schemaRelationships[r], "typeField")
            THEN {scope.schemaRelationships[r].typeField} ELSE {})
         \cup (IF Has(scope.schemaRelationships[r], "idField")
                 THEN {scope.schemaRelationships[r].idField} ELSE {}) :
         r \in {n \in DOMAIN scope.schemaRelationships :
                  Has(scope.schemaRelationships[n], "belongsToPolymorphic")}}

\* Lines 111-165
SparseSelection(scope, requested) ==
  LET columns == RequestedColumns(scope, requested)
      deps == DependencyColumns(scope, RequestedComputedFields(scope, requested))
      normallyHidden == NormallyHiddenColumns(scope, requested, columns \cup deps)
  IN [fieldsToSelect |-> columns \cup deps \cup normallyHidden,
      computedDependencies |->
        {d \in deps : d \notin Range(requested)}
        \cup {f \in normallyHidden : f \notin Range(requested)}]

\* Lines 166-200
AllVisibleSelection(scope) ==
  LET deps == DependencyColumns(scope, DOMAIN scope.computed)
  IN [fieldsToSelect |-> VisibleColumns(scope) \cup deps,
      computedDependencies |-> {d \in deps : scope.schema[d].normallyHidden = TRUE}]

\* Lines 69-233. fieldsToSelect and computedDependencies are built as Sets and
\* returned as arrays without duplicates; the model keeps them as sets.
buildFieldSelection(scope, requestedFields) ==
  LET requested == ParseRequested(requestedFields)
      sparse == Len(requested) > 0
      unknown == IF sparse THEN UnknownSparseFields(scope, requested) ELSE <<>>
      branch == IF sparse THEN SparseSelection(scope, requested)
                ELSE AllVisibleSelection(scope)
  IN IF Len(unknown) > 0
     THEN [ok |-> FALSE, error |-> [field |-> unknown[1], scopeName |-> "reviews"]]
     ELSE [ok |-> TRUE,
           fieldsToSelect |-> {IdColumn(scope.idProperty)}
                              \cup branch.fieldsToSelect
                              \cup ForeignKeyColumns(scope, requested)
                              \cup PolymorphicColumns(scope),
           requestedFields |-> requested,
           requestedIsNull |-> ~Truthy(requestedFields),
           computedDependencies |-> branch.computedDependencies,
           idProperty |-> scope.idProperty]

(***************************************************************************)
(* getRequestedComputedFields (knex-field-helpers.js lines 243-260).       *)
(***************************************************************************)
\* requestedFields.length === 0: an array without element, the string ''.
HasNoLength(requestedFields) ==
  CASE requestedFields.kind = "array"  -> Len(requestedFields.items) = 0
    [] requestedFields.kind = "string" -> requestedFields.items = <<"">>
    [] OTHER -> FALSE

\* Lines 243-260: the set of the names returned; all tells whether line 248
\* returned every computed field.
getRequestedComputedFields(requestedFields, computedFields) ==
  IF ~Truthy(requestedFields) \/ HasNoLength(requestedFields)
  THEN [all |-> TRUE, names |-> DOMAIN computedFields]
  ELSE LET requested == IF requestedFields.kind = "string"
                        THEN SplitTrimFilter(requestedFields.items)
                        ELSE requestedFields.items
       IN [all |-> FALSE, names |-> {f \in Range(requested) : f \in DOMAIN computedFields}]

InitFS ==
  /\ pc = "idle"
  /\ params = Idle
  /\ context = Idle
  /\ db = Idle
  /\ tx = Idle
  /\ idx = 0
  /\ thrown = NoError
  /\ rejection = NoError
  /\ hist = Idle
  /\ ja = Idle
  /\ au = Idle
  /\ pb = Idle
  /\ pg = Idle
  /\ fs \in [pc : {"ready"}, scope : FSScopes, requestedFields : RequestedFieldsValues]

BuildFieldSelection ==
  /\ fs.pc = "ready"
  /\ fs' = [pc |-> "done", scope |-> fs.scope, requestedFields |-> fs.requestedFields,
            out |-> buildFieldSelection(fs.scope, fs.requestedFields)]
  /\ UNCHANGED <<drVars, ja, au, pb, pg>>

\* The computed fields to calculate for the same request.
GetRequestedComputedFields ==
  /\ fs.pc = "done"
  /\ fs' = [pc |-> "computed", scope |-> fs.scope, requestedFields |-> fs.requestedFields,
            out |-> fs.out,
            computedFields |-> getRequestedComputedFields(fs.requestedFields,
                                                          fs.scope.computed)]
  /\ UNCHANGED <<drVars, ja, au, pb, pg>>

NextFS ==
  \/ BuildFieldSelection
  \/ GetRequestedComputedFields

SpecFS == InitFS /\ [][NextFS]_vars

(***************************************************************************)
(* JavaScript values held by database records.                             *)
(***************************************************************************)
Num(n) == [int |-> n]
Text(s) == [str |-> s]
Null == [null |-> TRUE]
Undefined == [undefined |-> TRUE]

\* obj[key]
Get(obj, key) == IF key \in DOMAIN obj THEN obj[key] ELSE Undefined

\* if (v)
IsTruthy(v) ==
  CASE Has(v, "int") -> v.int # 0
    [] Has(v, "str") -> v.str # ""
    [] OTHER -> FALSE

\* String(v), `${v}`
String(v) ==
  CASE Has(v, "int") -> ToString(v.int)
    [] Has(v, "str") -> v.str
    [] Has(v, "null") -> "null"
    [] OTHER -> "undefined"

\* An object-valued scope variable that is not set.
NotSet == [absent |-> TRUE]
Absent(v) == Has(v, "absent")

IsNullish(v) == Has(v, "null") \/ Has(v, "undefined")

(***************************************************************************)
(* toJsonApi (knex-json-api-helpers.js) and toJsonApiRecord                *)
(* (knex-json-api-transformers.js lines 70-101).                           *)
(***************************************************************************)
RELATIONSHIPS_KEY == "__$jsonrestapi_relationships$__"
RELATIONSHIP_METADATA_KEY == "__$jsonrestapi_metadata$__"
ROW_NUMBER_KEY == "__$jsonrestapi_rn$__"

\* getForeignKeyFields(schema): the schema fields that declare belongsTo.
getForeignKeyFields(schema) == {f \in DOMAIN schema : schema[f].belongsTo # Undef}

\* transformers lines 79-89: relDef.typeField and relDef.idField are read on the
\* relationship definition itself.
PolymorphicFields(scope) ==
  UNION {(IF Has(scope.schemaRelationships[r], "typeField")
            THEN {scope.schemaRelationships[r].typeField} ELSE {})
         \cup (IF Has(scope.schemaRelationships[r], "idField")
                 THEN {scope.schemaRelationships[r].idField} ELSE {}) :
         r \in {n \in DOMAIN scope.schemaRelationships :
                  Has(scope.schemaRelationships[n], "belongsToPolymorphic")}}

\* helpers lines 66-70
InternalFields == {RELATIONSHIPS_KEY, RELATIONSHIP_METADATA_KEY, ROW_NUMBER_KEY}

\* helpers lines 72-79: the keys of the record that become attributes.
AttributeKeys(scope, record, polymorphicFields) ==
  {key \in DOMAIN record \ {"id"} :
     /\ key \notin getForeignKeyFields(scope.schema)
     /\ key \notin polymorphicFields
     /\ key \notin InternalFields
     /\ key # scope.idProperty}

\* helpers lines 43-86
toJsonApiReadingIdProperty(scope, record, scopeName, polymorphicFields) ==
  [type |-> scopeName,
   id |-> String(Get(record, scope.idProperty)),
   attributes |-> [key \in AttributeKeys(scope, record, polymorphicFields) |-> record[key]]]

toJsonApi(scope, record, scopeName, polymorphicFields) ==
  [type |-> scopeName,
   id |-> String(Get(record, "id")),
   attributes |-> [key \in AttributeKeys(scope, record, polymorphicFields) |-> record[key]]]

\* transformers lines 70-101
toJsonApiRecord(scope, record, scopeName) ==
  toJsonApi(scope, record, scopeName, PolymorphicFields(scope))

(***************************************************************************)
(* buildJsonApiResponse (knex-json-api-transformers.js lines 118-280).     *)
(***************************************************************************)
\* scope.vars.publicBaseUrl || scope.vars.transport?.mountPath || ''
UrlPrefix(scope) ==
  IF scope.vars.publicBaseUrl # Undef /\ scope.vars.publicBaseUrl # ""
  THEN scope.vars.publicBaseUrl
  ELSE IF scope.vars.mountPath # Undef /\ scope.vars.mountPath # ""
  THEN scope.vars.mountPath
  ELSE ""

\* Lines 155-159 and the like: the links of a relationship built from a column.
\* record[idField] is read with idField = idProperty || 'id'.
RelationshipLinks(scope, record, scopeName, alias) ==
  LET idField == IF scope.idProperty # Undef /\ scope.idProperty # ""
                 THEN scope.idProperty ELSE "id"
      base == UrlPrefix(scope) \o "/" \o scopeName \o "/" \o String(Get(record, idField))
  IN [self |-> base \o "/relationships/" \o alias,
      related |-> base \o "/" \o alias]

NullData == [null |-> TRUE]

\* Lines 142-179: the belongsTo fields that get an entry: those with an alias
\* whose column is in the record and whose alias has no loaded entry.
BelongsToEntryFields(scope, cleanRecord, loaded) ==
  {f \in DOMAIN scope.schema :
     /\ scope.schema[f].belongsTo # Undef
     /\ scope.schema[f].as # Undef
     /\ f \in DOMAIN cleanRecord
     /\ scope.schema[f].as \notin DOMAIN loaded}

\* Lines 146-176
BelongsToEntry(scope, record, scopeName, f) ==
  [data |-> IF ~IsNullish(record[f])
            THEN [type |-> scope.schema[f].belongsTo, id |-> String(record[f])]
            ELSE NullData,
   links |-> RelationshipLinks(scope, record, scopeName, scope.schema[f].as)]

\* cleanRecord[relDef.typeField]: an absent property name reads the key 'undefined'.
FieldValue(record, relDef, prop) ==
  Get(record, IF Has(relDef, prop) THEN relDef[prop] ELSE "undefined")

\* Lines 182-221: the polymorphic relationships that get an entry.
PolymorphicEntryNames(scope, cleanRecord) ==
  {r \in DOMAIN scope.schemaRelationships :
     /\ Has(scope.schemaRelationships[r], "belongsToPolymorphic")
     /\ LET typeValue == FieldValue(cleanRecord, scope.schemaRelationships[r], "typeField")
            idValue == FieldValue(cleanRecord, scope.schemaRelationships[r], "idField")
        IN \/ IsTruthy(typeValue) /\ IsTruthy(idValue)
           \/ Has(typeValue, "null")
           \/ Has(idValue, "null")}

\* Lines 187-218
PolymorphicEntry(scope, record, scopeName, r) ==
  LET typeValue == FieldValue(record, scope.schemaRelationships[r], "typeField")
      idValue == FieldValue(record, scope.schemaRelationships[r], "idField")
  IN [data |-> IF IsTruthy(typeValue) /\ IsTruthy(idValue)
               THEN [type |-> String(typeValue), id |-> String(idValue)]
               ELSE NullData,
      links |-> RelationshipLinks(scope, record, scopeName, r)]

\* Lines 132-224: one record. A record is its columns and, under
\* RELATIONSHIPS_KEY, the relationships already loaded for it (hasLoaded: the key
\* is there). The resource object has a relationships member when
\* hasRelationships.
ProcessRecord(scope, record, scopeName) ==
  LET cleanRecord == record.columns
      loaded == IF record.hasLoaded THEN record.loaded ELSE <<>>
      jsonApiRecord == toJsonApiRecord(scope, cleanRecord, scopeName)
      belongsTo == BelongsToEntryFields(scope, cleanRecord, loaded)
      belongsToAliases == {scope.schema[f].as : f \in belongsTo}
      touched == {scope.schema[f].as : f \in {g \in DOMAIN scope.schema :
                    /\ scope.schema[g].belongsTo # Undef
                    /\ scope.schema[g].as # Undef
                    /\ g \in DOMAIN cleanRecord}}
      polymorphic == PolymorphicEntryNames(scope, cleanRecord)
      aliases == DOMAIN loaded \cup belongsToAliases \cup polymorphic
  IN [type |-> jsonApiRecord.type,
      id |-> jsonApiRecord.id,
      attributes |-> jsonApiRecord.attributes,
      hasRelationships |-> record.hasLoaded \/ touched # {} \/ polymorphic # {},
      relationships |->
        [a \in aliases |->
           IF a \in polymorphic THEN PolymorphicEntry(scope, cleanRecord, scopeName, a)
           ELSE IF a \in belongsToAliases
           THEN BelongsToEntry(scope, cleanRecord, scopeName,
                               CHOOSE f \in belongsTo : scope.schema[f].as = a)
           ELSE loaded[a]],
      links |-> [self |-> UrlPrefix(scope) \o "/" \o scopeName \o "/" \o jsonApiRecord.id]]

(***************************************************************************)
(* toJsonApiRecordWithBelongsTo (knex-json-api-transformers.js lines       *)
(* 321-391), for a record that is there.                                   *)
(***************************************************************************)
\* Lines 343-361: every belongsTo field with an alias gets an entry; record[f]
\* is undefined for a column the record lacks.
MinimalBelongsToEntry(scope, record, f) ==
  [data |-> IF ~IsNullish(Get(record, f))
            THEN [type |-> scope.schema[f].belongsTo, id |-> String(Get(record, f))]
            ELSE NullData]

\* Lines 364-384: every belongsToPolymorphic relationship gets an entry.
MinimalPolymorphicEntry(scope, record, r) ==
  LET typeValue == FieldValue(record, scope.schemaRelationships[r], "typeField")
      idValue == FieldValue(record, scope.schemaRelationships[r], "idField")
  IN [data |-> IF IsTruthy(typeValue) /\ IsTruthy(idValue)
               THEN [type |-> String(typeValue), id |-> String(idValue)]
               ELSE NullData]

\* Lines 321-391. The relationships member is deleted when it is empty
\* (hasRelationships).
toJsonApiRecordWithBelongsTo(scope, record, scopeName) ==
  LET jsonApiRecord == toJsonApiRecord(scope, record, scopeName)
      belongsTo == {f \in DOMAIN scope.schema :
                      scope.schema[f].belongsTo # Undef /\ scope.schema[f].as # Undef}
      belongsToAliases == {scope.schema[f].as : f \in belongsTo}
      polymorphic == {r \in DOMAIN scope.schemaRelationships :
                        Has(scope.schemaRelationships[r], "belongsToPolymorphic")}
      aliases == belongsToAliases \cup polymorphic
  IN [type |-> jsonApiRecord.type,
      id |-> jsonApiRecord.id,
      attributes |-> jsonApiRecord.attributes,
      hasRelationships |-> aliases # {},
      relationships |->
        [a \in aliases |->
           IF a \in polymorphic THEN MinimalPolymorphicEntry(scope, record, a)
           ELSE MinimalBelongsToEntry(scope, record,
                                      CHOOSE f \in belongsTo : scope.schema[f].as = a)]]

\* Lines 250-258
IncludedWithLinks(scope, included) ==
  [k \in 1..Len(included) |->
     [type |-> included[k].type, id |-> included[k].id,
      links |-> [self |-> UrlPrefix(scope) \o "/" \o included[k].type
                          \o "/" \o included[k].id]]]

\* Lines 118-280. data is kept as a sequence: for a single-resource response it
\* holds processedRecords[0] when there is one (single tells the two shapes
\* apart). The call throws a TypeError at line 274 when isSingle is set, there
\* is no record and the scope carries no pagination links.
buildJsonApiResponse(scope, records, included, isSingle, scopeName) ==
  LET processedRecords == [k \in 1..Len(records) |-> ProcessRecord(scope, records[k], scopeName)]
      data == IF isSingle
              THEN (IF Len(processedRecords) > 0 THEN <<processedRecords[1]>> ELSE <<>>)
              ELSE processedRecords
  IN IF Absent(scope.vars.paginationLinks) /\ isSingle /\ Len(records) = 0
     THEN [ok |-> FALSE, error |-> "TypeError"]
     ELSE [ok |-> TRUE,
           single |-> isSingle,
           data |-> data,
           hasIncluded |-> Len(included) > 0,
           included |-> IncludedWithLinks(scope, included),
           hasMeta |-> ~Absent(scope.vars.paginationMeta),
           meta |-> [pagination |-> scope.vars.paginationMeta],
           links |-> IF ~Absent(scope.vars.paginationLinks)
                     THEN scope.vars.paginationLinks
                     ELSE [self |-> IF isSingle
                                    THEN UrlPrefix(scope) \o "/" \o scopeName \o "/" \o data[1].id
                                    ELSE UrlPrefix(scope) \o "/" \o scopeName
                                         \o (IF scope.vars.queryString = Undef THEN ""
                                             ELSE scope.vars.queryString)]]

(***************************************************************************)
(* buildJsonApiResponse: scopes, records and included resources.           *)
(***************************************************************************)
MaxRecords == 2
MaxLoads == 2

ScopeName == "reviews"
JAIdProperties == {"id", "review_id"}

PaginationLinksValues == {NotSet, [self |-> "/api/reviews?page[number]=2"]}
PaginationMetaValues == {NotSet, [total |-> 5]}

\* The reviews resource of the fixtures, with a belongsTo field that declares an
\* alias and one that declares none.
JAScope(idProperty, shape, paginationMeta, paginationLinks) ==
  [schema |->
     [title           |-> FieldDef(FALSE, FALSE, Undef, Undef),
      author_id       |-> FieldDef(FALSE, FALSE, "people", "author"),
      editor_id       |-> FieldDef(FALSE, FALSE, "people", Undef),
      reviewable_type |-> FieldDef(FALSE, FALSE, Undef, Undef),
      reviewable_id   |-> FieldDef(FALSE, FALSE, Undef, Undef)],
   schemaRelationships |-> Relationships(shape),
   idProperty |-> idProperty,
   vars |-> [publicBaseUrl |-> "/api", mountPath |-> Undef, queryString |-> Undef,
             paginationMeta |-> paginationMeta, paginationLinks |-> paginationLinks]]

\* A column that the row may lack (it was not selected) or hold with one of values.
Optional(key, values) == {<<>>} \cup {key :> v : v \in values}

\* The rows a query may return for record number k: the identity is always there
\* as id (the select aliases it); the identity column under its own name, the
\* foreign keys, the polymorphic pair and the row-number key may be missing.
RecordColumns(idProperty, k) ==
  {("id" :> Num(k)) @@ ("title" :> Text("t")) @@ own @@ author @@ editor @@ type @@ rid @@ rn :
     own \in (IF idProperty = "id" THEN {<<>>} ELSE Optional(idProperty, {Num(k)})),
     author \in Optional("author_id", {Null, Num(0), Num(2)}),
     editor \in Optional("editor_id", {Num(3)}),
     type \in Optional("reviewable_type", {Null, Text("books")}),
     rid \in Optional("reviewable_id", {Null, Num(1)}),
     rn \in Optional(ROW_NUMBER_KEY, {Num(1)})}

\* Row k of a result whose first row has the given columns: the same columns,
\* with the identity of row k.
RowLike(columns, idProperty, k) ==
  [key \in DOMAIN columns |->
     IF key = "id" \/ key = idProperty THEN Num(k) ELSE columns[key]]

\* record[RELATIONSHIPS_KEY]: missing, empty, or holding the entries the include
\* loader stored: a belongsTo alias, a polymorphic relationship, a to-many
\* relationship with its linkage array.
LoadedValues ==
  {[has |-> FALSE, rels |-> <<>>],
   [has |-> TRUE, rels |-> <<>>],
   [has |-> TRUE, rels |-> ("author" :> [data |-> [type |-> "people", id |-> "9"]])],
   [has |-> TRUE, rels |-> ("reviewable" :> [data |-> [type |-> "authors", id |-> "7"]])
                           @@ ("replies" :> [data |-> <<[type |-> "replies", id |-> "5"],
                                                        [type |-> "replies", id |-> "4"]>>])]}

Records(columns, idProperty, n, loaded) ==
  [k \in 1..n |-> [columns |-> RowLike(columns, idProperty, k),
                   hasLoaded |-> loaded.has, loaded |-> loaded.rels]]

FullColumns(idProperty) ==
  ("id" :> Num(1)) @@ ("title" :> Text("t")) @@ ("author_id" :> Num(2))
  @@ ("editor_id" :> Num(3)) @@ ("reviewable_type" :> Text("books"))
  @@ ("reviewable_id" :> Num(1))

\* A related resource reached while the includes of a request are loaded: the
\* parent it was reached through and the resource.
IncludableResources == {[type |-> "people", id |-> "2"], [type |-> "books", id |-> "1"]}
Loads == [via : 1..MaxRecords, resource : IncludableResources]

\* The include loader keeps one resource per (type, id), in the order the
\* resources were first reached.
RECURSIVE CollectIncludedKeepingAll(_)
CollectIncludedKeepingAll(loads) ==
  IF loads = <<>> THEN <<>>
  ELSE Append(CollectIncludedKeepingAll(SubSeq(loads, 1, Len(loads) - 1)),
              loads[Len(loads)].resource)

RECURSIVE CollectIncluded(_)
CollectIncluded(loads) ==
  IF loads = <<>> THEN <<>>
  ELSE LET before == CollectIncluded(SubSeq(loads, 1, Len(loads) - 1))
           last == loads[Len(loads)].resource
       IN IF \E k \in 1..Len(before) :
               before[k].type = last.type /\ before[k].id = last.id
          THEN before
          ELSE Append(before, last)

\* Requests that vary the row, and requests that vary the included resources and
\* the pagination state of the scope.
RowRequests ==
  {[pc |-> "ready",
    scope |-> JAScope(idp, shape, NotSet, NotSet),
    records |-> Records(columns, idp, n, loaded),
    loads |-> <<>>,
    isSingle |-> single] :
     idp \in JAIdProperties, shape \in PolymorphicShapes, n \in 0..MaxRecords,
     loaded \in LoadedValues, single \in BOOLEAN,
     columns \in UNION {RecordColumns(i, 1) : i \in JAIdProperties}}

IncludeRequests ==
  {[pc |-> "ready",
    scope |-> JAScope(idp, shape, meta, links),
    records |-> Records(FullColumns(idp), idp, n, [has |-> FALSE, rels |-> <<>>]),
    loads |-> loads,
    isSingle |-> single] :
     idp \in JAIdProperties, shape \in PolymorphicShapes, n \in 0..MaxRecords,
     meta \in PaginationMetaValues, links \in PaginationLinksValues,
     single \in BOOLEAN, loads \in SeqsUpTo(Loads, MaxLoads)}

InitJA ==
  /\ pc = "idle"
  /\ params = Idle
  /\ context = Idle
  /\ db = Idle
  /\ tx = Idle
  /\ idx = 0
  /\ thrown = NoError
  /\ rejection = NoError
  /\ hist = Idle
  /\ fs = Idle
  /\ au = Idle
  /\ pb = Idle
  /\ pg = Idle
  /\ ja \in RowRequests \cup IncludeRequests

\* The includes of the request are loaded before the document is built.
LoadIncludes ==
  /\ ja.pc = "ready"
  /\ ja' = [pc |-> "loaded", scope |-> ja.scope, records |-> ja.records,
            loads |-> ja.loads, isSingle |-> ja.isSingle,
            included |-> CollectIncluded(ja.loads)]
  /\ UNCHANGED <<drVars, fs, au, pb, pg>>

BuildJsonApiResponse ==
  /\ ja.pc = "loaded"
  /\ ja' = [pc |-> "done", scope |-> ja.scope, records |-> ja.records,
            loads |-> ja.loads, isSingle |-> ja.isSingle, included |-> ja.included,
            out |-> buildJsonApiResponse(ja.scope, ja.records, ja.included,
                                         ja.isSingle, ScopeName)]
  /\ UNCHANGED <<drVars, fs, au, pb, pg>>

\* dataGetMinimal converts the same rows with toJsonApiRecordWithBelongsTo.
ToJsonApiRecordWithBelongsTo ==
  /\ ja.pc = "done"
  /\ ja' = [pc |-> "minimal", scope |-> ja.scope, records |-> ja.records,
            loads |-> ja.loads, isSingle |-> ja.isSingle, included |-> ja.included,
            out |-> ja.out,
            minimal |-> [k \in 1..Len(ja.records) |->
                           toJsonApiRecordWithBelongsTo(ja.scope, ja.records[k].columns,
                                                        ScopeName)]]
  /\ UNCHANGED <<drVars, fs, au, pb, pg>>

NextJA ==
  \/ LoadIncludes
  \/ BuildJsonApiResponse
  \/ ToJsonApiRecordWithBelongsTo

SpecJA == InitJA /\ [][NextJA]_vars

(***************************************************************************)
(* Declarative auth: resource methods called under an auth declaration, as *)
(* tests/jwt-auth.test.js sets them up and calls them (SpecAU). The plugin *)
(* that evaluates the rules (plugins/core/jwt-auth-plugin.js) is modelled  *)
(* from the behaviour these tests require.                                 *)
(***************************************************************************)
\* The auth declarations of the posts and moderated_posts resources.
AuthDeclarations ==
  [posts |->
     [query  |-> <<"public">>,
      get    |-> <<"public">>,
      post   |-> <<"authenticated">>,
      patch  |-> <<"is_owner", "has_role:editor", "admin">>,
      delete |-> <<"is_owner", "admin">>],
   moderated_posts |->
     [query |-> <<"public">>,
      get   |-> <<"public">>,
      post  |-> <<"authenticated">>,
      patch |-> <<"is_moderator">>]]

AuthCalls ==
  UNION {{[resource |-> r, method |-> m] : m \in DOMAIN AuthDeclarations[r]} :
         r \in DOMAIN AuthDeclarations}

\* context.auth: null, or the user id and the roles of the caller (no roles
\* property and an empty roles array give the same answers).
NoAuth == [anonymous |-> TRUE]
UserIds == {"123", "456"}
Roles == {"user", "editor", "admin", "moderator"}
AuthContexts == {NoAuth} \cup [userId : UserIds, roles : SUBSET Roles]

\* The stored record the call addresses, and the table that holds it.
StoredRecord(owner) == [user_id |-> owner, title |-> "Test Post"]
Table(owner) == [id \in {"1"} |-> StoredRecord(owner)]
NoRecord == [missing |-> TRUE]

\* The record a method is about: the addressed one for get, patch and delete.
AddressedRecord(call, table) ==
  IF call.method \in {"get", "patch", "delete"} /\ "1" \in DOMAIN table
  THEN table["1"] ELSE NoRecord

\* api.helpers.auth.registerChecker('is_moderator', ...)
is_moderator(auth) == auth # NoAuth /\ "moderator" \in auth.roles

\* The built-in checkers.
RuleHolds(rule, auth, record) ==
  CASE rule = "public"          -> TRUE
    [] rule = "authenticated"   -> auth # NoAuth
    [] rule = "is_owner"        -> /\ auth # NoAuth
                                   /\ record # NoRecord
                                   /\ record.user_id = auth.userId
    [] rule = "has_role:editor" -> auth # NoAuth /\ "editor" \in auth.roles
    [] rule = "admin"           -> auth # NoAuth /\ "admin" \in auth.roles
    [] rule = "is_moderator"    -> is_moderator(auth)

\* The rules of a declaration are tried in order; one that holds is enough.
checkPermissionRequiringEveryRule(rules, auth, record) ==
  \A i \in 1..Len(rules) : RuleHolds(rules[i], auth, record)

checkPermission(rules, auth, record) ==
  \E i \in 1..Len(rules) : RuleHolds(rules[i], auth, record)

\* rules.join(', ')
RECURSIVE JoinRules(_)
JoinRules(rules) ==
  IF Len(rules) = 0 THEN ""
  ELSE IF Len(rules) = 1 THEN rules[1]
  ELSE rules[1] \o ", " \o JoinRules(Tail(rules))

\* 'Access denied. Required one of: <rules>'
AccessDenied(rules) == [message |-> "Access denied", requiredOneOf |-> JoinRules(rules)]

\* What the method does to the table once it is allowed.
MethodEffect(call, auth, table) ==
  CASE call.method = "post" ->
         [id \in DOMAIN table \cup {"2"} |->
            IF id = "2" THEN [user_id |-> auth.userId, title |-> "My Post"] ELSE table[id]]
    [] call.method = "patch" -> [table EXCEPT !["1"].title = "Updated Post"]
    [] call.method = "delete" -> [id \in DOMAIN table \ {"1"} |-> table[id]]
    [] OTHER -> table

InitAU ==
  /\ pc = "idle"
  /\ params = Idle
  /\ context = Idle
  /\ db = Idle
  /\ tx = Idle
  /\ idx = 0
  /\ thrown = NoError
  /\ rejection = NoError
  /\ hist = Idle
  /\ fs = Idle
  /\ ja = Idle
  /\ pb = Idle
  /\ pg = Idle
  /\ au \in {[pc |-> "ready", call |-> call, auth |-> auth,
              table |-> Table(owner), table0 |-> Table(owner)] :
               call \in AuthCalls, auth \in AuthContexts, owner \in UserIds \cup {Undef}}

\* The checkPermissions hook of the plugin.
CheckPermissionsHook ==
  /\ au.pc = "ready"
  /\ au' = [pc |-> "checked", call |-> au.call, auth |-> au.auth,
            table |-> au.table, table0 |-> au.table0,
            allowed |-> checkPermission(AuthDeclarations[au.call.resource][au.call.method],
                                        au.auth, AddressedRecord(au.call, au.table))]
  /\ UNCHANGED <<drVars, fs, ja, pb, pg>>

\* The hook threw: the call rejects before the method touches the record.
RejectCall ==
  /\ au.pc = "checked"
  /\ ~au.allowed
  /\ au' = [pc |-> "rejected", call |-> au.call, auth |-> au.auth,
            table |-> au.table, table0 |-> au.table0,
            error |-> AccessDenied(AuthDeclarations[au.call.resource][au.call.method])]
  /\ UNCHANGED <<drVars, fs, ja, pb, pg>>

\* The hook returned: the method runs.
ExecuteMethod ==
  /\ au.pc = "checked"
  /\ au.allowed
  /\ au' = [pc |-> "done", call |-> au.call, auth |-> au.auth,
            table |-> MethodEffect(au.call, au.auth, au.table), table0 |-> au.table0]
  /\ UNCHANGED <<drVars, fs, ja, pb, pg>>

NextAU ==
  \/ CheckPermissionsHook
  \/ RejectCall
  \/ ExecuteMethod

SpecAU == InitAU /\ [][NextAU]_vars

(***************************************************************************)
(* processBelongsToRelationships (knex-json-api-transformers.js lines      *)
(* 407-439).                                                                *)
(***************************************************************************)
\* The articles resource of the JSDoc example, with a belongsTo field that
\* declares no alias.
PBSchema ==
  [title       |-> FieldDef(FALSE, FALSE, Undef, Undef),
   author_id   |-> FieldDef(FALSE, FALSE, "authors", "author"),
   category_id |-> FieldDef(FALSE, FALSE, "categories", "category"),
   editor_id   |-> FieldDef(FALSE, FALSE, "people", Undef)]

\* inputRecord.data.relationships[name]: null, an object without data, data:
\* null, or data with an id.
RelationshipValues ==
  {Null, [nodata |-> TRUE], [data |-> Null],
   [data |-> [type |-> "x", id |-> Text("5")]], [data |-> [type |-> "x", id |-> Num(0)]]}

\* inputRecord.data.relationships: missing, or an object with some of the names.
RelationshipInputs ==
  {[has |-> FALSE, rels |-> <<>>]}
  \cup {[has |-> TRUE, rels |-> author @@ category @@ tags] :
          author \in Optional("author", RelationshipValues),
          category \in Optional("category", RelationshipValues),
          tags \in Optional("tags", {[data |-> Null]})}

\* relData.data?.id || null; relData itself is dereferenced without a guard.
ForeignKeyUpdate(relData) ==
  IF Has(relData, "data") /\ Has(relData.data, "id") /\ IsTruthy(relData.data.id)
  THEN relData.data.id
  ELSE Null

\* Lines 431-435: the fields that get an update.
UpdatedFields(schema, relationships) ==
  {f \in DOMAIN schema :
     /\ schema[f].belongsTo # Undef
     /\ schema[f].as # Undef
     /\ schema[f].as \in DOMAIN relationships}

\* Lines 407-439. relData.data throws a TypeError when relData is null.
processBelongsToRelationships(schema, input) ==
  IF ~input.has THEN [ok |-> TRUE, foreignKeyUpdates |-> <<>>]
  ELSE LET fields == UpdatedFields(schema, input.rels)
       IN IF \E f \in fields : Has(input.rels[schema[f].as], "null")
          THEN [ok |-> FALSE, error |-> "TypeError"]
          ELSE [ok |-> TRUE,
                foreignKeyUpdates |->
                  [f \in fields |-> ForeignKeyUpdate(input.rels[schema[f].as])]]

InitPB ==
  /\ pc = "idle"
  /\ params = Idle
  /\ context = Idle
  /\ db = Idle
  /\ tx = Idle
  /\ idx = 0
  /\ thrown = NoError
  /\ rejection = NoError
  /\ hist = Idle
  /\ fs = Idle
  /\ ja = Idle
  /\ au = Idle
  /\ pg = Idle
  /\ pb \in [pc : {"ready"}, input : RelationshipInputs]

ProcessBelongsToRelationships ==
  /\ pb.pc = "ready"
  /\ pb' = [pc |-> "done", input |-> pb.input,
            out |-> processBelongsToRelationships(PBSchema, pb.input)]
  /\ UNCHANGED <<drVars, fs, ja, au, pg>>

NextPB == ProcessBelongsToRelationships

SpecPB == InitPB /\ [][NextPB]_vars

(***************************************************************************)
(* Requests on one resource. scope is scopes[scopeName], one object per    *)
(* resource; buildJsonApiResponse reads the pagination of the document     *)
(* from scope.vars (knex-json-api-transformers.js lines 261-269), so a     *)
(* collection request leaves it there before the document is built.        *)
(***************************************************************************)
NumRequests == 2
MaxPage == 2

RequestIds == 1..NumRequests

\* A collection request for a page, or a request for one resource.
RequestValues ==
  [kind : {"query"}, page : 1..MaxPage] \cup [kind : {"get"}, id : 1..MaxRecords]

\* The pagination a collection request computes from its own result.
PaginationMetaOf(page) == [page |-> page, total |-> 5]
PaginationLinksOf(page) == [self |-> "/api/reviews?page[number]=" \o ToString(page)]

\* The scope as buildJsonApiResponse finds it.
SharedScope == JAScope("id", "none", pg.vars.paginationMeta, pg.vars.paginationLinks)

NoLoaded == [has |-> FALSE, rels |-> <<>>]

InitPG ==
  /\ pc = "idle"
  /\ params = Idle
  /\ context = Idle
  /\ db = Idle
  /\ tx = Idle
  /\ idx = 0
  /\ thrown = NoError
  /\ rejection = NoError
  /\ hist = Idle
  /\ fs = Idle
  /\ ja = Idle
  /\ au = Idle
  /\ pb = Idle
  /\ \E reqs \in [RequestIds -> RequestValues] :
       pg = [vars |-> [paginationMeta |-> NotSet, paginationLinks |-> NotSet],
             reqs |-> [r \in RequestIds |-> [req |-> reqs[r], pc |-> "start", out |-> NotSet]]]

\* A collection request stores its pagination on the scope.
StorePagination(r) ==
  /\ pg.reqs[r].pc = "start"
  /\ pg.reqs[r].req.kind = "query"
  /\ pg' = [vars |-> [paginationMeta |-> PaginationMetaOf(pg.reqs[r].req.page),
                      paginationLinks |-> PaginationLinksOf(pg.reqs[r].req.page)],
            reqs |-> [pg.reqs EXCEPT ![r].pc = "stored"]]
  /\ UNCHANGED <<drVars, fs, ja, au, pb>>

\* The collection request builds its document.
BuildCollection(r) ==
  /\ pg.reqs[r].pc = "stored"
  /\ pg' = [vars |-> pg.vars,
            reqs |-> [pg.reqs EXCEPT
                        ![r].pc = "done",
                        ![r].out = buildJsonApiResponse(SharedScope,
                                     Records(FullColumns("id"), "id", MaxRecords, NoLoaded),
                                     <<>>, FALSE, ScopeName)]]
  /\ UNCHANGED <<drVars, fs, ja, au, pb>>

\* A request for one resource builds its document.
BuildSingle(r) ==
  /\ pg.reqs[r].pc = "start"
  /\ pg.reqs[r].req.kind = "get"
  /\ pg' = [vars |-> pg.vars,
            reqs |-> [pg.reqs EXCEPT
                        ![r].pc = "done",
                        ![r].out = buildJsonApiResponse(SharedScope,
                                     <<[columns |-> RowLike(FullColumns("id"), "id",
                                                            pg.reqs[r].req.id),
                                        hasLoaded |-> FALSE, loaded |-> <<>>]>>,
                                     <<>>, TRUE, ScopeName)]]
  /\ UNCHANGED <<drVars, fs, ja, au, pb>>

NextPG ==
  \E r \in RequestIds :
    \/ StorePagination(r)
    \/ BuildCollection(r)
    \/ BuildSingle(r)

SpecPG == InitPG /\ [][NextPG]_vars



(***************************************************************************)
(* Declarative auth: properties.                                           *)
(***************************************************************************)
DeclaredRules == AuthDeclarations[au.call.resource][au.call.method]

JaBuilt == ja.pc = "done" /\ ja.out.ok

\* typeField and idField of a polymorphic relationship, wherever it declares them.
PolymorphicDeclaration(relDef) ==
  IF Has(relDef.belongsToPolymorphic, "typeField") THEN relDef.belongsToPolymorphic
  ELSE relDef

PolymorphicRelationships(scope) ==
  {r \in DOMAIN scope.schemaRelationships :
     Has(scope.schemaRelationships[r], "belongsToPolymorphic")}

\* The linkage a belongsTo column stands for.
BelongsToLinkage(scope, columns, f) ==
  IF IsNullish(Get(columns, f)) THEN NullData
  ELSE [type |-> scope.schema[f].belongsTo, id |-> String(Get(columns, f))]

\* The linkage a polymorphic type/id pair stands for.
PolymorphicLinkage(columns, decl) ==
  IF IsNullish(Get(columns, decl.typeField)) \/ IsNullish(Get(columns, decl.idField))
  THEN NullData
  ELSE [type |-> String(Get(columns, decl.typeField)),
        id |-> String(Get(columns, decl.idField))]

\* C4: in every resource object of data, each belongsTo field of the schema
\* (with or without an alias) and each polymorphic belongsTo relationship has an
\* entry in relationships, whose data is {type, id: String(value)} when the
\* reference is set and null otherwise; the entry is never omitted. (An entry
\* that was loaded for the record is only required to be there.)
C4_EveryReferenceHasAnEntry ==
  JaBuilt =>
    \A k \in 1..Len(ja.out.data) :
      LET res == ja.out.data[k]
          columns == ja.records[k].columns
          loaded == ja.records[k].loaded
      IN /\ \A f \in getForeignKeyFields(ja.scope.schema) :
              \E a \in (IF ja.scope.schema[f].as # Undef
                        THEN {ja.scope.schema[f].as} ELSE DOMAIN res.relationships) :
                /\ a \in DOMAIN res.relationships
                /\ a \notin DOMAIN loaded =>
                     res.relationships[a].data = BelongsToLinkage(ja.scope, columns, f)
         /\ \A r \in PolymorphicRelationships(ja.scope) :
              /\ r \in DOMAIN res.relationships
              /\ res.relationships[r].data =
                   PolymorphicLinkage(columns,
                     PolymorphicDeclaration(ja.scope.schemaRelationships[r]))

\* The columns that never become attributes: the identity, the belongsTo foreign
\* keys, the polymorphic type and id columns, the internal keys.
NonAttributeColumns(scope) ==
  {"id", scope.idProperty}
  \cup getForeignKeyFields(scope.schema)
  \cup UNION {{PolymorphicDeclaration(scope.schemaRelationships[r]).typeField,
               PolymorphicDeclaration(scope.schemaRelationships[r]).idField} :
              r \in PolymorphicRelationships(scope)}
  \cup InternalFields

\* C5: the attributes of a resource object hold none of the identity column, the
\* belongsTo foreign-key columns, the typeField/idField columns of a polymorphic
\* relationship and the internal keys, and hold every other column of the
\* record with its value.
C5_AttributesAreTheOtherColumns ==
  JaBuilt =>
    \A k \in 1..Len(ja.out.data) :
      LET res == ja.out.data[k]
          columns == ja.records[k].columns
      IN /\ DOMAIN res.attributes \cap NonAttributeColumns(ja.scope) = {}
         /\ \A key \in DOMAIN columns \ NonAttributeColumns(ja.scope) :
              key \in DOMAIN res.attributes /\ res.attributes[key] = columns[key]

C8_RelationshipLinksUseResourceId ==
  JaBuilt =>
    \A k \in 1..Len(ja.out.data) :
      LET res == ja.out.data[k]
          base == ja.scope.vars.publicBaseUrl \o "/" \o res.type \o "/" \o res.id
      IN \A a \in DOMAIN res.relationships \ DOMAIN ja.records[k].loaded :
           /\ res.relationships[a].links.self = base \o "/relationships/" \o a
           /\ res.relationships[a].links.related = base \o "/" \o a

\* C18: every resource object of data has the resource type as type and the
\* String of its row's identity value as id, also when the identity property
\* is not named id; the id is never 'undefined'.
C18_TypeAndIdOfEveryResource ==
  JaBuilt =>
    \A k \in 1..Len(ja.out.data) :
      /\ ja.out.data[k].type = ScopeName
      /\ ja.out.data[k].id = ToString(ja.records[k].columns["id"].int)
      /\ ja.out.data[k].id # "undefined"

\* C18 witness: two rows of a resource with a custom identity property, selected
\* with the identity aliased as id and without the column under its own name.
C18_Witness ==
  /\ JaBuilt
  /\ ja.scope.idProperty = "review_id"
  /\ Len(ja.out.data) = 2
  /\ "review_id" \notin DOMAIN ja.records[2].columns
  /\ ja.records[2].columns["id"] = Num(2)
  /\ ja.out.data[2].id = "2"
  /\ ja.out.data[2].type = "reviews"

(***************************************************************************)
(* buildFieldSelection: properties.                                        *)
(***************************************************************************)
FsReturned == fs.pc = "done" /\ fs.out.ok

BelongsToFields(scope) == {f \in DOMAIN scope.schema : scope.schema[f].belongsTo # Undef}
HiddenFields(scope) == {f \in DOMAIN scope.schema : scope.schema[f].hidden = TRUE}

IdentityColumnSelected ==
  /\ fs.scope.idProperty = "id" => "id" \in fs.out.fieldsToSelect
  /\ fs.scope.idProperty = "country_id" => "country_id as id" \in fs.out.fieldsToSelect

\* C3 as stated: fieldsToSelect contains the identity column and every schema
\* field that declares belongsTo, whatever was requested.
C3_Original_AllForeignKeysSelected ==
  FsReturned =>
    /\ IdentityColumnSelected
    /\ BelongsToFields(fs.scope) \subseteq fs.out.fieldsToSelect

\* C3 amended: fieldsToSelect contains the identity column ('id', or
\* '<idProperty> as id') and every schema field that declares belongsTo and is
\* not marked hidden, whatever was requested.
C3_IdentityAndVisibleForeignKeysSelected ==
  FsReturned =>
    /\ IdentityColumnSelected
    /\ (BelongsToFields(fs.scope) \ HiddenFields(fs.scope)) \subseteq fs.out.fieldsToSelect

\* C3 witness: a sparse fieldset that names neither the identity nor the foreign
\* key, on a resource with a custom identity property and a visible foreign key.
C3_Witness ==
  /\ FsReturned
  /\ fs.requestedFields = [kind |-> "array", items |-> <<"title">>]
  /\ fs.scope.idProperty = "country_id"
  /\ "author_id" \notin HiddenFields(fs.scope)
  /\ "author_id" \in fs.out.fieldsToSelect

\* C6: no field marked hidden: true is in fieldsToSelect, also when it is
\* requested, a computed dependency, a belongsTo foreign key, or the
\* typeField/idField of a polymorphic relationship.
C6_NoHiddenFieldSelected ==
  FsReturned => HiddenFields(fs.scope) \cap fs.out.fieldsToSelect = {}

\* The relationships declared as belongsToPolymorphic: {types, typeField, idField}.
NestedPolymorphic(scope) ==
  {r \in DOMAIN scope.schemaRelationships :
     /\ Has(scope.schemaRelationships[r], "belongsToPolymorphic")
     /\ Has(scope.schemaRelationships[r].belongsToPolymorphic, "typeField")}

\* C9: for a relationship declared as belongsToPolymorphic: {types, typeField,
\* idField}, fieldsToSelect contains the typeField column and the idField column,
\* whatever was requested.
C9_PolymorphicColumnsSelected ==
  FsReturned =>
    \A r \in NestedPolymorphic(fs.scope) :
      /\ fs.scope.schemaRelationships[r].belongsToPolymorphic.typeField
           \in fs.out.fieldsToSelect
      /\ fs.scope.schemaRelationships[r].belongsToPolymorphic.idField
           \in fs.out.fieldsToSelect

\* The computed fields that will be calculated: all of them with no sparse
\* fieldset, the requested ones otherwise.
CalculatedFields ==
  IF Len(fs.out.requestedFields) > 0
  THEN Range(fs.out.requestedFields) \cap DOMAIN fs.scope.computed
  ELSE DOMAIN fs.scope.computed

\* C10 as stated: every name in the dependencies of a computed field that will
\* be calculated is in fieldsToSelect.
C10_Original_AllDependenciesSelected ==
  FsReturned =>
    \A c \in CalculatedFields :
      Range(fs.scope.computed[c].dependencies) \subseteq fs.out.fieldsToSelect

\* C10 amended: every name in the dependencies of a computed field that will be
\* calculated, that is a schema column not marked hidden, is in fieldsToSelect,
\* even when that column was not requested.
C10_VisibleDependenciesSelected ==
  FsReturned =>
    \A c \in CalculatedFields :
      ((Range(fs.scope.computed[c].dependencies) \cap DOMAIN fs.scope.schema)
         \ HiddenFields(fs.scope)) \subseteq fs.out.fieldsToSelect

\* C10 witness: only the computed field is requested; its two dependencies, one
\* of them normallyHidden, were not requested and are selected.
C10_Witness ==
  /\ FsReturned
  /\ fs.requestedFields = [kind |-> "array", items |-> <<"profit">>]
  /\ fs.scope.computed["profit"].dependencies = <<"cost", "title">>
  /\ fs.scope.schema["cost"].normallyHidden
  /\ ~fs.scope.schema["cost"].hidden
  /\ {"cost", "title"} \subseteq fs.out.fieldsToSelect

\* The names the request asks for, and whether it is a sparse fieldset.
RequestedSet == Range(fs.out.requestedFields)
SparseFieldset == Len(fs.out.requestedFields) > 0

\* The selected columns that a calculated computed field declares as dependency.
DependencyFetched ==
  {col \in fs.out.fieldsToSelect :
     \E c \in CalculatedFields : col \in Range(fs.scope.computed[c].dependencies)}

\* A column is fetched for a reason of its own when it is requested, when it is
\* a belongsTo foreign key, or when it is visible by default and no sparse
\* fieldset is given.
FetchedForAnotherReason(col) ==
  \/ col \in RequestedSet
  \/ /\ col \in DOMAIN fs.scope.schema
     /\ \/ fs.scope.schema[col].belongsTo # Undef
        \/ ~SparseFieldset /\ fs.scope.schema[col].normallyHidden # TRUE

\* C11: computedDependencies is a subset of fieldsToSelect, holds no requested
\* field, holds every column fetched only to satisfy a computed dependency, and
\* holds no column that is fetched for another reason as well (a belongsTo
\* foreign key, a column visible by default).
C11_ComputedDependenciesAreTheColumnsToStrip ==
  FsReturned =>
    /\ fs.out.computedDependencies \subseteq fs.out.fieldsToSelect
    /\ fs.out.computedDependencies \cap RequestedSet = {}
    /\ \A col \in DependencyFetched :
         ~FetchedForAnotherReason(col) => col \in fs.out.computedDependencies
    /\ \A col \in fs.out.computedDependencies : ~FetchedForAnotherReason(col)

NormallyHiddenFields(scope) ==
  {f \in DOMAIN scope.schema : scope.schema[f].normallyHidden = TRUE}

\* C12: every normallyHidden field that is selected and was not requested is in
\* computedDependencies; with no sparse fieldset a normallyHidden field is
\* selected only as a dependency of a computed field.
C12_NormallyHiddenOnlyWhenRequested ==
  FsReturned =>
    \A f \in NormallyHiddenFields(fs.scope) \cap fs.out.fieldsToSelect :
      /\ f \notin RequestedSet => f \in fs.out.computedDependencies
      /\ ~SparseFieldset =>
           \E c \in DOMAIN fs.scope.computed :
             f \in Range(fs.scope.computed[c].dependencies)

\* The names of a sparse fieldset that are neither a schema column, nor a
\* computed field, nor a virtual field.
UnknownRequested ==
  Range(ParseRequested(fs.requestedFields))
    \ (DOMAIN fs.scope.schema \cup DOMAIN fs.scope.computed \cup DOMAIN fs.scope.virtual)

\* C19: buildFieldSelection fails, naming the field and the resource, for every
\* sparse fieldset with a name that is neither a schema column, nor a computed
\* field, nor a virtual field; it does not fail for any other fieldset.
C19_UnknownSparseFieldFails ==
  fs.pc = "done" =>
    /\ UnknownRequested # {} =>
         /\ ~fs.out.ok
         /\ fs.out.error.field \in UnknownRequested
         /\ fs.out.error.scopeName = "reviews"
    /\ UnknownRequested = {} => fs.out.ok

(***************************************************************************)
(* deleteRelationship: properties.                                         *)
(***************************************************************************)
\* The (foreignKey, otherKey) pairs the request names.
ListedPairs ==
  {<<params.id, params.relationshipData[k]>> : k \in 1..Len(params.relationshipData)}

ThroughTable == ManyToManyDef(RelDef).through

\* What a store keeps of the storage at the start of a many-to-many request:
\* every endpoint record, every child row, the other pivot table, and every pivot
\* row that is not a listed pair.
ManyToManyFrame(store) ==
  /\ store.parents = hist.db0.parents
  /\ store.targets = hist.db0.targets
  /\ store.children = hist.db0.children
  /\ \A t \in PivotTables \ {ThroughTable} : store.pivot[t] = hist.db0.pivot[t]
  /\ store.pivot[ThroughTable] \subseteq hist.db0.pivot[ThroughTable]
  /\ hist.db0.pivot[ThroughTable] \ store.pivot[ThroughTable] \subseteq ListedPairs

\* C1: a many-to-many deleteRelationship of parent P with identifiers T1..Tn
\* removes exactly the pivot rows (P, Ti): at every step no other pivot row, no
\* child row and no record of either endpoint resource is changed, in the
\* transaction's view or in the committed storage; when the call has returned,
\* the storage the call wrote to holds the initial rows minus the listed pairs,
\* and so does the committed storage when the call committed its own transaction.
C1_PivotDeleteExact ==
  IsThrough(RelDef) /\ IsArray(params.relationshipData) =>
    /\ ManyToManyFrame(db)
    /\ ManyToManyFrame(tx.view)
    /\ pc = "done" =>
         /\ ContextDb.pivot[ThroughTable] = hist.db0.pivot[ThroughTable] \ ListedPairs
         /\ params.txMode = "own" =>
              db.pivot[ThroughTable] = hist.db0.pivot[ThroughTable] \ ListedPairs

\* C1 witness: a committed request that removed two different associations of a
\* parent that has a third one, while the other parent keeps all of its rows.
C1_Witness ==
  /\ pc = "done"
  /\ IsThrough(RelDef)
  /\ params.txMode = "own"
  /\ Len(params.relationshipData) = 2
  /\ params.relationshipData[1] # params.relationshipData[2]
  /\ Cardinality(hist.db0.pivot[ThroughTable] \ db.pivot[ThroughTable]) = 2
  /\ \E row \in db.pivot[ThroughTable] : row[1] = params.id

\* C2: when a step fails after the first removal was issued, none of the
\* request's removals is visible afterwards (committed pivot rows and child
\* foreign keys are as before the request), both when the method opened its own
\* transaction and when no transaction helper is available.
C2_FailureLeavesNoRemoval ==
  (pc = "failed" /\ hist.issued >= 1 /\ params.txMode \in {"own", "none"}) =>
    /\ db.pivot = hist.db0.pivot
    /\ db.children = hist.db0.children

\* The direct hasMany relationship: the foreign key is in the target table.
DirectHasMany == Has(RelDef, "hasMany") /\ ~Has(RelDef, "through")

\* What the caller of the method sees of the storage: the caller's own
\* transaction when it passed one, the committed storage otherwise.
CallerStore == IF params.txMode = "caller" THEN tx.view ELSE db

\* C13: on a direct hasMany relationship the call sets the foreign key of each
\* listed target record to null when it completes, and at no point deletes a
\* target record or changes another column of one: the target records are the
\* same by id, each with its other column unchanged.
C13_DirectHasManyNullsForeignKey ==
  DirectHasMany =>
    /\ \A store \in {db, tx.view} :
         /\ DOMAIN store.children = DOMAIN hist.db0.children
         /\ \A c \in DOMAIN hist.db0.children :
              store.children[c].body = hist.db0.children[c].body
    /\ pc = "done" =>
         \A k \in 1..Len(params.relationshipData) :
           CallerStore.children[params.relationshipData[k]].fk = NullFk

\* C13 witness: a committed request on the direct hasMany relationship, listing
\* two children of which the first had a foreign key.
C13_Witness ==
  /\ pc = "done"
  /\ DirectHasMany
  /\ params.txMode = "own"
  /\ Len(params.relationshipData) = 2
  /\ params.relationshipData[1] # params.relationshipData[2]
  /\ hist.db0.children[params.relationshipData[1]].fk # NullFk
  /\ db.children[params.relationshipData[1]].fk = NullFk
  /\ db.children[params.relationshipData[2]].fk = NullFk

\* The request has changed nothing: no statement was issued, the storage and the
\* transaction's view are as at the start.
NothingRemoved == hist.issued = 0 /\ db = hist.db0 /\ tx.view = hist.db0

\* A check of lines 28-46 threw: an error was thrown before any hook ran.
ValidationThrew == thrown # NoError /\ hist.hooks = <<>>

\* The error that the failed check of lines 28-60 stands for.
CheckError ==
  IF Has(RelDef, "none") THEN "relationship_not_found"
  ELSE IF ~Has(RelDef, "hasMany") /\ ~Has(RelDef, "manyToMany") THEN "validation:data"
  ELSE IF ~IsArray(params.relationshipData) THEN "payload"
  ELSE "not_found"

\* C14: a call that fails one of the checks (unknown relationship name, to-one
\* relationship, relationshipData not an array, parent not found) ends with
\* that error, and nothing has been removed.
C14_CheckErrorsBeforeAnyMutation ==
  (pc = "failed" /\ (ValidationThrew \/ thrown = "not_found")) =>
    /\ rejection = CheckError
    /\ NothingRemoved

\* C15: the parent-existence read and every removal happen after
\* checkPermissions and then checkPermissionsDeleteRelationship have completed
\* without throwing; when one of the two throws, the call fails and nothing is
\* removed.
C15_PermissionHooksBeforeAnyAccess ==
  /\ (pc \in {"dataExists", "remove"} \/ hist.issued > 0) =>
       /\ Len(hist.hooks) >= 2
       /\ SubSeq(hist.hooks, 1, 2) = <<"checkPermissions", "checkPermissionsDeleteRelationship">>
  /\ pc \in {"dataExists", "remove"} => thrown = NoError
  /\ (thrown = "HookError" /\ Len(hist.hooks) <= 2) =>
       /\ pc \in {"catch", "failed"}
       /\ NothingRemoved

\* C15 witness: both permission hooks completed and a removal was issued.
C15_Witness ==
  /\ hist.issued > 0
  /\ thrown = NoError
  /\ Len(hist.hooks) >= 2
  /\ hist.hooks[1] = "checkPermissions"
  /\ hist.hooks[2] = "checkPermissionsDeleteRelationship"

\* C15 witness, second case: the second permission hook threw and the call failed.
C15_WitnessDenied ==
  /\ pc = "failed"
  /\ thrown = "HookError"
  /\ hist.hooks = <<"checkPermissions", "checkPermissionsDeleteRelationship">>
  /\ hist.issued = 0

\* The method has opened a transaction of its own.
OpenedByMethod == params.txMode = "own" /\ tx.state # "none"

\* C16: the method opens no transaction before the relationship name, the
\* relationship kind and the payload have been validated; a request that fails
\* validation never opens one.
C16_NoTransactionBeforeValidation ==
  OpenedByMethod =>
    /\ pc # "validate"
    /\ ~ValidationThrew

\* C17: when the call has settled, a transaction opened by the method is ended:
\* committed exactly once and not rolled back when every step succeeded, rolled
\* back and not committed when a step failed.
C17_OwnTransactionIsEnded ==
  (OpenedByMethod /\ pc \in {"done", "failed"}) =>
    IF pc = "done"
    THEN tx.state = "committed" /\ hist.commits = 1 /\ hist.rollbacks = 0
    ELSE tx.state = "rolledback" /\ hist.rollbacks = 1

\* C21: on a direct hasMany relationship of parent P the call changes the
\* foreign key only of children whose foreign key is P: a child that belongs to
\* another parent, or to none, keeps its foreign key, listed or not.
C21_OnlyChildrenOfTheParentAreDetached ==
  DirectHasMany =>
    \A store \in {db, tx.view} :
      \A c \in DOMAIN hist.db0.children :
        hist.db0.children[c].fk # params.id =>
          store.children[c].fk = hist.db0.children[c].fk

\* C22: the call never commits a transaction supplied by its caller; it commits
\* only its own transaction, and only after every removal and the hooks finish
\* and then finishDeleteRelationship have completed; with the caller's
\* transaction every removal is made inside it and is uncommitted when the call
\* returns.
C22_CommitsOnlyItsOwnTransactionLast ==
  /\ params.txMode = "caller" =>
       /\ hist.commits = 0
       /\ tx.state = "open"
       /\ db = hist.db0
  /\ hist.commits > 0 =>
       /\ params.txMode = "own"
       /\ hist.commits = 1
       /\ hist.issued = Len(params.relationshipData)
       /\ Len(hist.hooks) = 4
       /\ SubSeq(hist.hooks, 3, 4) = <<"finish", "finishDeleteRelationship">>
  /\ (params.txMode = "caller" /\ pc = "done") =>
       /\ hist.issued = Len(params.relationshipData)
       /\ IsThrough(RelDef) =>
            \A k \in 1..Len(params.relationshipData) :
              <<params.id, params.relationshipData[k]>> \notin tx.view.pivot[ThroughTable]
       /\ DirectHasMany =>
            \A k \in 1..Len(params.relationshipData) :
              tx.view.children[params.relationshipData[k]].fk = NullFk

\* C22 witness: a call made with the caller's transaction returned after two
\* removals, which are in the transaction and not in the committed storage.
C22_Witness ==
  /\ pc = "done"
  /\ params.txMode = "caller"
  /\ IsThrough(RelDef)
  /\ hist.issued = 2
  /\ tx.view.pivot[ThroughTable] # hist.db0.pivot[ThroughTable]
  /\ db = hist.db0
  /\ tx.state = "open"
  /\ hist.commits = 0

(***************************************************************************)
(* buildFieldSelection: what a sparse fieldset fetches.                    *)
(***************************************************************************)
\* The typeField and idField columns of the polymorphic relationships, wherever
\* the declaration carries them.
DeclaredPolymorphicColumns(scope) ==
  PolymorphicColumns(scope)
  \cup UNION {{scope.schemaRelationships[r].belongsToPolymorphic.typeField,
               scope.schemaRelationships[r].belongsToPolymorphic.idField} :
              r \in NestedPolymorphic(scope)}

\* The declared dependencies of the requested computed fields.
RequestedDependencies ==
  UNION {Range(fs.scope.computed[c].dependencies) :
         c \in RequestedSet \cap DOMAIN fs.scope.computed}

\* C23: under a sparse fieldset every column in fieldsToSelect is the identity
\* column, an explicitly requested column, a declared dependency of a requested
\* computed field, a belongsTo foreign key, or a polymorphic type/id column; no
\* other column (in particular no normallyHidden column unrelated to the
\* requested computed fields) is fetched.
C23_SparseSelectsOnlyWhatIsNeeded ==
  (FsReturned /\ SparseFieldset) =>
    fs.out.fieldsToSelect \subseteq
      ({IdColumn(fs.scope.idProperty)} \cup RequestedSet \cup RequestedDependencies
         \cup BelongsToFields(fs.scope) \cup DeclaredPolymorphicColumns(fs.scope))

\* C24: no computed field name and no virtual field name ever appears in
\* fieldsToSelect, with or without a sparse fieldset, also when the field is
\* declared inside the schema with computed: true or virtual: true, or is marked
\* normallyHidden.
C24_NoComputedOrVirtualFieldSelected ==
  FsReturned => fs.out.fieldsToSelect \cap NonDatabaseFields(fs.scope) = {}

(***************************************************************************)
(* buildJsonApiResponse: loaded relationships.                             *)
(***************************************************************************)
\* C25: buildJsonApiResponse never replaces a relationship entry that was
\* already loaded for the record: for every alias present under the
\* relationships key (belongsTo, polymorphic or to-many) the entry of the output
\* is the loaded one, and to-many linkage arrays keep their elements and order.
C25_LoadedRelationshipsAreKept ==
  JaBuilt =>
    \A k \in 1..Len(ja.out.data) :
      ja.records[k].hasLoaded =>
        \A a \in DOMAIN ja.records[k].loaded :
          /\ a \in DOMAIN ja.out.data[k].relationships
          /\ ja.out.data[k].relationships[a] = ja.records[k].loaded[a]

(***************************************************************************)
(* toJsonApiRecordWithBelongsTo against buildJsonApiResponse.              *)
(***************************************************************************)
JaCompared == ja.pc = "minimal" /\ ja.out.ok

\* C26: toJsonApiRecordWithBelongsTo and buildJsonApiResponse agree on linkage
\* for every record, whatever columns are present, null, undefined, 0 or empty:
\* each belongsTo and polymorphic relationship is present in both or in neither
\* with the same data value, and type, id and attributes are the same.
C26_MinimalAgreesWithResponse ==
  JaCompared =>
    \A k \in 1..Len(ja.out.data) :
      ~ja.records[k].hasLoaded =>
        /\ ja.minimal[k].type = ja.out.data[k].type
        /\ ja.minimal[k].id = ja.out.data[k].id
        /\ ja.minimal[k].attributes = ja.out.data[k].attributes
        /\ DOMAIN ja.minimal[k].relationships = DOMAIN ja.out.data[k].relationships
        /\ \A a \in DOMAIN ja.minimal[k].relationships \cap DOMAIN ja.out.data[k].relationships :
             ja.minimal[k].relationships[a].data = ja.out.data[k].relationships[a].data

(***************************************************************************)
(* processBelongsToRelationships: properties.                              *)
(***************************************************************************)
\* The belongsTo fields that declare an alias.
AliasedForeignKeys == {f \in DOMAIN PBSchema : PBSchema[f].belongsTo # Undef /\ PBSchema[f].as # Undef}

\* The id of relationships[A].data, or null when there is no data.
LinkedId(relData) ==
  IF Has(relData, "data") /\ Has(relData.data, "id") THEN relData.data.id ELSE Null

\* C27: for each belongsTo field F with alias A, if the input relationships
\* contain A then result[F] is the id of relationships[A].data, or null when
\* data is null; if A is absent F is not in the result; the result has no other
\* key; the call fails for no input (relationships[A] = null and ids such as 0
\* included).
C27_ForeignKeyUpdatesFollowTheInput ==
  pb.pc = "done" =>
    /\ pb.out.ok
    /\ DOMAIN pb.out.foreignKeyUpdates \subseteq AliasedForeignKeys
    /\ \A f \in AliasedForeignKeys :
         IF pb.input.has /\ PBSchema[f].as \in DOMAIN pb.input.rels
         THEN /\ f \in DOMAIN pb.out.foreignKeyUpdates
              /\ pb.out.foreignKeyUpdates[f] = LinkedId(pb.input.rels[PBSchema[f].as])
         ELSE f \notin DOMAIN pb.out.foreignKeyUpdates

(***************************************************************************)
(* getRequestedComputedFields against buildFieldSelection.                 *)
(***************************************************************************)
FsComputed == fs.pc = "computed" /\ fs.out.ok

\* C28: getRequestedComputedFields and buildFieldSelection agree on every
\* requested-fields value (absent, empty list, list of names, comma-separated
\* string, a string that parses to no names such as ','): the first returns all
\* computed fields exactly when the second took the all-visible branch, and
\* otherwise it returns the requested names that are computed fields.
C28_ComputedFieldsAgreeWithSelection ==
  FsComputed =>
    IF ~SparseFieldset
    THEN fs.computedFields.names = DOMAIN fs.scope.computed
    ELSE fs.computedFields.names = RequestedSet \cap DOMAIN fs.scope.computed

(***************************************************************************)
(* Requests on one resource: properties.                                   *)
(***************************************************************************)
\* C29: a document is built from its own request only: for any interleaving of
\* requests on the same resource, meta.pagination and the top-level links never
\* come from another request; in particular the response for one resource
\* carries no meta.pagination and has links.self equal to that resource's URL.
C29_DocumentComesFromItsOwnRequest ==
  pg # Idle =>
    \A r \in RequestIds :
      pg.reqs[r].pc = "done" =>
        /\ pg.reqs[r].out.ok
        /\ IF pg.reqs[r].req.kind = "get"
           THEN /\ ~pg.reqs[r].out.hasMeta
                /\ pg.reqs[r].out.links
                     = [self |-> "/api/reviews/" \o ToString(pg.reqs[r].req.id)]
           ELSE /\ pg.reqs[r].out.hasMeta
                /\ pg.reqs[r].out.meta.pagination = PaginationMetaOf(pg.reqs[r].req.page)
                /\ pg.reqs[r].out.links = PaginationLinksOf(pg.reqs[r].req.page)

\* C30: buildJsonApiResponse returns a document for every input: with isSingle
\* set and an empty record list it does not fail but returns a document without
\* primary resource, with or without pagination links set on the scope.
C30_EveryInputYieldsADocument ==
  ja.pc \in {"done", "minimal"} =>
    /\ ja.out.ok
    /\ (ja.isSingle /\ ja.records = <<>>) => ja.out.data = <<>>

=============================================================================
